---- MODULE Spec2Model ----
(***************************************************************************)
(* Model of the enforced auto-download pipeline of easy-v0-api:            *)
(*   V0ChatCreator.downloadGeneratedCode / createIndexFile                 *)
(*   V0ChatCreator.waitAndDownloadEnforced / createAndDownload             *)
(*   ensureBackendIntegration / fixImportPaths                             *)
(*                                                                         *)
(* File content is a sequence of symbols.  The symbols "Q", "c" and "l"    *)
(* stand for the multi-character units `from "`, `components` and `lib`;   *)
(* every other symbol is one character.  A path is the pair                *)
(* <<directory, name>> that path.join(directory, name) denotes.            *)
(***************************************************************************)
EXTENDS Integers, Sequences, FiniteSets, TLC

(***************************************************************************)
(* Bounds of the model                                                     *)
(***************************************************************************)
MaxFiles == 2
MaxRuns == 2
MaxWaitTime == 6
MaxFragments == 2
LongDeadline == 10

(***************************************************************************)
(* Strings: content, String.includes, String.replace(new RegExp(p, 'g'))   *)
(***************************************************************************)
Text(toks) == [kind |-> "text", toks |-> toks]
Undefined == [kind |-> "undefined", toks |-> <<>>]
Absent == [kind |-> "absent", toks |-> <<>>]

\* mutant of Truthy: an empty string passes the test
Truthy_emptyPasses(v) == v.kind = "text"

\* JavaScript truthiness of a string-or-undefined value
Truthy(v) == v.kind = "text" /\ v.toks # <<>>

\* the symbols that are exactly one character long: a regex '.' matches them
OneChar == {".", "/", "@", "x", "u", "i"}

Includes(s, lit) ==
  \E k \in 1..(Len(s) - Len(lit) + 1) : SubSeq(s, k, k + Len(lit) - 1) = lit

\* does the regular expression pat (the symbol "." is the wildcard) match a
\* prefix of s
MatchAt(s, pat) ==
  /\ Len(s) >= Len(pat)
  /\ \A k \in 1..Len(pat) :
       IF pat[k] = "." THEN s[k] \in OneChar ELSE s[k] = pat[k]

RECURSIVE RegexReplaceAll(_, _, _)
RegexReplaceAll(s, pat, rep) ==
  IF Len(s) < Len(pat) THEN s
  ELSE IF MatchAt(s, pat)
       THEN rep \o RegexReplaceAll(SubSeq(s, Len(pat) + 1, Len(s)), pat, rep)
       ELSE <<Head(s)>> \o RegexReplaceAll(Tail(s), pat, rep)

\* importFixes, in the insertion order Object.entries walks
importFixes ==
  << [wrongPath |-> <<"Q", "c", "/">>,
      correctPath |-> <<"Q", "@", "/", "c", "/">>],
     [wrongPath |-> <<"Q", "l", "/">>,
      correctPath |-> <<"Q", "@", "/", "l", "/">>],
     [wrongPath |-> <<"Q", ".", "/", "u", "i", "/">>,
      correctPath |-> <<"Q", "@", "/", "c", "/", "u", "i", "/">>],
     [wrongPath |-> <<"Q", ".", ".", "/", "u", "i", "/">>,
      correctPath |-> <<"Q", "@", "/", "c", "/", "u", "i", "/">>] >>

RECURSIVE ApplyFixes(_, _)
ApplyFixes(content, k) ==
  IF k > Len(importFixes) THEN content
  ELSE ApplyFixes(
         IF Includes(content, importFixes[k].wrongPath)
         THEN RegexReplaceAll(content, importFixes[k].wrongPath,
                              importFixes[k].correctPath)
         ELSE content,
         k + 1)

(***************************************************************************)
(* Paths                                                                   *)
(***************************************************************************)
DefaultOutputDir == "./src/components"
Cwd == "."

FileNames == {"Button.tsx", "index.js", "ui/Card.jsx", "util.ts",
              "lib/api/client.ts", "index.tsx", "menu.js"}

PathJoin(dir, name) == <<dir, name>>

ExtName(name) ==
  CASE name = "Button.tsx" -> ".tsx"
    [] name = "index.js" -> ".js"
    [] name = "ui/Card.jsx" -> ".jsx"
    [] name = "util.ts" -> ".ts"
    [] name = "lib/api/client.ts" -> ".ts"
    [] name = "index.tsx" -> ".tsx"
    [] name = "menu.js" -> ".js"
    [] OTHER -> ""

BaseName(name) ==
  CASE name = "Button.tsx" -> "Button"
    [] name = "index.js" -> "index"
    [] name = "ui/Card.jsx" -> "Card"
    [] name = "util.ts" -> "util"
    [] name = "lib/api/client.ts" -> "client"
    [] name = "index.tsx" -> "index"
    [] name = "menu.js" -> "menu"
    [] OTHER -> name

\* filePath.includes('index')
IncludesIndex(p) == p[2] \in {"index.js", "index.tsx"}

\* the directories a recursive mkdir of path.dirname(path) makes
DirsOf(p) ==
  LET sub == CASE p[2] = "ui/Card.jsx" -> {"ui"}
               [] p[2] = "lib/api/client.ts" -> {"lib", "lib/api"}
               [] p[2] = "src/middleware.ts" -> {"src"}
               [] OTHER -> {}
  IN {<<p[1], d>> : d \in sub}

\* the directory path.dirname(path) itself
DirName(p) ==
  CASE p[2] = "ui/Card.jsx" -> <<p[1], "ui">>
    [] p[2] = "lib/api/client.ts" -> <<p[1], "lib/api">>
    [] p[2] = "src/middleware.ts" -> <<p[1], "src">>
    [] OTHER -> <<p[1], "">>

\* the directories fs.mkdirSync(outputDir, {recursive: true}) makes
RootDirs(outputDir) ==
  IF outputDir = DefaultOutputDir
  THEN {<<Cwd, "src">>, <<outputDir, "">>}
  ELSE {<<outputDir, "">>}

IndexPath(outputDir) == PathJoin(outputDir, "index.js")
HelperPath(outputDir) == PathJoin(outputDir, "lib/api/client.ts")
EnvPath == PathJoin(Cwd, ".env")
EnvTemplatePath == PathJoin(Cwd, ".env.template")
MiddlewarePath == PathJoin(Cwd, "src/middleware.ts")

OutputDirs == {DefaultOutputDir, "./out"}

AllPaths ==
  {PathJoin(d, n) : d \in OutputDirs, n \in FileNames}
    \cup {EnvPath, EnvTemplatePath, MiddlewarePath}

(***************************************************************************)
(* The filesystem: the content of every path and the set of directories    *)
(***************************************************************************)
EmptyDisk == [files |-> [p \in AllPaths |-> Absent], dirs |-> {<<Cwd, "">>}]

WriteFile(disk, p, content) ==
  [disk EXCEPT !.files[p] = content]

MkdirP(disk, ds) == [disk EXCEPT !.dirs = @ \cup ds]

Exists(disk, p) == disk.files[p] # Absent

(***************************************************************************)
(* A file entry of a chat: the latestVersion.files shape (name, content)   *)
(* and the chat.files shape (meta.file, source).  A name is a string, ""   *)
(* when it is empty or undefined.                                          *)
(***************************************************************************)
FileEntry(name, content) ==
  [name |-> name, content |-> content, metaFile |-> "", source |-> Undefined]

MetaEntry(metaFile, source) ==
  [name |-> "", content |-> Undefined, metaFile |-> metaFile, source |-> source]

\* lines 170-180: the (fileName, fileContent) pair read from an entry
Resolve(file) ==
  IF file.name # "" /\ Truthy(file.content)
  THEN [fileName |-> file.name, fileContent |-> file.content]
  ELSE IF file.metaFile # "" /\ Truthy(file.source)
       THEN [fileName |-> file.metaFile, fileContent |-> file.source]
       ELSE [fileName |-> "", fileContent |-> Undefined]

\* line 182: if (fileName && fileContent)
WellFormed(file) ==
  Resolve(file).fileName # "" /\ Truthy(Resolve(file).fileContent)

NoFaults == [writeFailAt |-> 0, indexFail |-> FALSE, fixFailAt |-> 0]

\* mutant of SaveFiles: a saved path is put in front of savedFiles
RECURSIVE SaveFiles_unshift(_, _, _, _, _)
SaveFiles_unshift(files, k, outputDir, st, faults) ==
  IF k > Len(files) \/ st.thrown THEN st
  ELSE
    LET r == Resolve(files[k])
        filePath == PathJoin(outputDir, r.fileName)
    IN IF WellFormed(files[k])
       THEN IF faults.writeFailAt = k
            THEN [st EXCEPT !.thrown = TRUE,
                            !.disk = MkdirP(st.disk, DirsOf(filePath))]
            ELSE SaveFiles_unshift(files, k + 1, outputDir,
                   [st EXCEPT
                      !.disk = WriteFile(MkdirP(st.disk, DirsOf(filePath)),
                                         filePath, r.fileContent),
                      !.saved = <<filePath>> \o st.saved],
                   faults)
       ELSE SaveFiles_unshift(files, k + 1, outputDir, st, faults)

\* files.forEach of lines 166-200, from entry k on; st is the state of the
\* loop: the disk, savedFiles, and whether fs.writeFileSync has thrown
RECURSIVE SaveFiles(_, _, _, _, _)
SaveFiles(files, k, outputDir, st, faults) ==
  IF k > Len(files) \/ st.thrown THEN st
  ELSE
    LET r == Resolve(files[k])
        filePath == PathJoin(outputDir, r.fileName)
    IN IF WellFormed(files[k])
       THEN IF faults.writeFailAt = k
            THEN [st EXCEPT !.thrown = TRUE,
                            !.disk = MkdirP(st.disk, DirsOf(filePath))]
            ELSE SaveFiles(files, k + 1, outputDir,
                   [st EXCEPT
                      !.disk = WriteFile(MkdirP(st.disk, DirsOf(filePath)),
                                         filePath, r.fileContent),
                      !.saved = Append(st.saved, filePath)],
                   faults)
       ELSE SaveFiles(files, k + 1, outputDir, st, faults)

(***************************************************************************)
(* createIndexFile                                                         *)
(***************************************************************************)
IsComponent(p) ==
  \/ ExtName(p[2]) = ".jsx"
  \/ ExtName(p[2]) = ".tsx"
  \/ (ExtName(p[2]) = ".js" /\ ~IncludesIndex(p))

ExportLine(p) ==
  CASE BaseName(p[2]) = "Button" -> "export { default as Button } from './Button';"
    [] BaseName(p[2]) = "Card" -> "export { default as Card } from './Card';"
    [] BaseName(p[2]) = "index" -> "export { default as index } from './index';"
    [] BaseName(p[2]) = "util" -> "export { default as util } from './util';"
    [] BaseName(p[2]) = "menu" -> "export { default as menu } from './menu';"
    [] OTHER -> "export { default as client } from './client';"

ComponentFiles(savedFiles) == SelectSeq(savedFiles, IsComponent)

IndexContent(savedFiles) ==
  Text([k \in 1..Len(ComponentFiles(savedFiles)) |->
          ExportLine(ComponentFiles(savedFiles)[k])])

\* mutant of createIndexFile: the manifest is appended to an existing one
createIndexFile_append(outputDir, savedFiles, disk, faults) ==
  IF ComponentFiles(savedFiles) = <<>> THEN disk
  ELSE IF faults.indexFail THEN disk
       ELSE WriteFile(disk, IndexPath(outputDir),
              Text(disk.files[IndexPath(outputDir)].toks
                     \o IndexContent(savedFiles).toks))

createIndexFile(outputDir, savedFiles, disk, faults) ==
  IF ComponentFiles(savedFiles) = <<>> THEN disk
  ELSE IF faults.indexFail THEN disk
       ELSE WriteFile(disk, IndexPath(outputDir), IndexContent(savedFiles))

(***************************************************************************)
(* backend-integration-config.js                                           *)
(***************************************************************************)
EnvTemplate == Text(<<"envTemplate">>)
MiddlewareContent == Text(<<"middlewareContent">>)
ApiHelperContent == Text(<<"apiHelperContent">>)

IsTypeScript(p) == ExtName(p[2]) = ".tsx" \/ ExtName(p[2]) = ".ts"

\* mutant of fixImportPaths: files of every extension are rewritten
RECURSIVE fixImportPaths_anyFile(_, _, _, _)
fixImportPaths_anyFile(downloadedFiles, k, st, faults) ==
  IF k > Len(downloadedFiles) \/ st.thrown THEN st
  ELSE
    LET filePath == downloadedFiles[k]
        content == st.disk.files[filePath].toks
        fixed == ApplyFixes(content, 1)
    IN IF faults.fixFailAt = k
       THEN [st EXCEPT !.thrown = TRUE]
       ELSE fixImportPaths_anyFile(downloadedFiles, k + 1,
              [st EXCEPT !.disk = WriteFile(@, filePath, Text(fixed))],
              faults)

\* the loop of fixImportPaths from file k on; st = [disk, thrown]
RECURSIVE fixImportPaths(_, _, _, _)
fixImportPaths(downloadedFiles, k, st, faults) ==
  IF k > Len(downloadedFiles) \/ st.thrown THEN st
  ELSE
    LET filePath == downloadedFiles[k]
        content == st.disk.files[filePath].toks
        fixed == ApplyFixes(content, 1)
        modified == \E j \in 1..Len(importFixes) :
                       Includes(content, importFixes[j].wrongPath)
    IN IF ~IsTypeScript(filePath)
       THEN fixImportPaths(downloadedFiles, k + 1, st, faults)
       ELSE IF faults.fixFailAt = k
            THEN [st EXCEPT !.thrown = TRUE]
            ELSE fixImportPaths(downloadedFiles, k + 1,
                   [st EXCEPT !.disk =
                      IF modified THEN WriteFile(@, filePath, Text(fixed))
                      ELSE @],
                   faults)

validateEnvironmentVariables(disk) ==
  IF ~Exists(disk, EnvPath)
  THEN WriteFile(disk, EnvTemplatePath, EnvTemplate)
  ELSE disk

\* ensureMiddlewareIntegration and createMiddlewareFile; the write throws
\* when the directory src of the working directory does not exist
ensureMiddlewareIntegration(st) ==
  IF Exists(st.disk, MiddlewarePath) THEN st
  ELSE IF DirName(MiddlewarePath) \in st.disk.dirs
       THEN [st EXCEPT !.disk = WriteFile(@, MiddlewarePath, MiddlewareContent)]
       ELSE [st EXCEPT !.thrown = TRUE]

generateApiHelpers(outputDir, disk) ==
  WriteFile(MkdirP(disk, DirsOf(HelperPath(outputDir))),
            HelperPath(outputDir), ApiHelperContent)

\* steps 1-6 of ensureBackendIntegration; a throw of a step skips the rest
\* and is caught (lines 104-107).  Steps 1 and 4 only read and log.
ensureBackendIntegration(downloadedFiles, outputDir, disk, faults) ==
  LET s2 == validateEnvironmentVariables(disk)
      s3 == fixImportPaths(downloadedFiles, 1,
                           [disk |-> s2, thrown |-> FALSE], faults)
      s5 == IF s3.thrown THEN s3 ELSE ensureMiddlewareIntegration(s3)
  IN IF s5.thrown THEN s5.disk ELSE generateApiHelpers(outputDir, s5.disk)

(***************************************************************************)
(* downloadGeneratedCode.  resp is the reply of getChat: raised or a chat  *)
(***************************************************************************)
Raised == [raised |-> TRUE, status |-> "unknown",
           lvFiles |-> <<>>, rootFiles |-> <<>>]

Chat(status, lvFiles, rootFiles) ==
  [raised |-> FALSE, status |-> status,
   lvFiles |-> lvFiles, rootFiles |-> rootFiles]

\* lines 141-150
SelectFiles(chat) ==
  IF Len(chat.lvFiles) > 0 THEN chat.lvFiles
  ELSE IF Len(chat.rootFiles) > 0 THEN chat.rootFiles
       ELSE <<>>

Result(outcome, saved, disk, integrated) ==
  [outcome |-> outcome, saved |-> saved, disk |-> disk,
   integrated |-> integrated]

\* mutant of RunsEnrichment: the enrichment does not depend on the files
RunsEnrichment_always(savedFiles) == TRUE

\* line 202: the manifest and the backend integration run only when some
\* file was written
RunsEnrichment(savedFiles) == Len(savedFiles) > 0

\* mutant of IndexFailureOutcome: createIndexFile lets the failure escape
IndexFailureOutcome_rethrow == "rethrown"

\* the catch of createIndexFile (lines 244-246) logs the failure of the
\* manifest write and returns
IndexFailureOutcome == "logged"

\* mutant of NoFilesDisk: the output directory is created before the test
NoFilesDisk_mkdirFirst(outputDir, disk) == MkdirP(disk, RootDirs(outputDir))

\* lines 152-155: the return for a chat without files comes before the
\* mkdir of lines 157-161, so the filesystem is as it was
NoFilesDisk(outputDir, disk) == disk

downloadGeneratedCode(resp, outputDir, disk, faults) ==
  IF resp.raised THEN Result("throw", <<>>, disk, FALSE)
  ELSE
    LET files == SelectFiles(resp)
        d1 == MkdirP(disk, RootDirs(outputDir))
        st == SaveFiles(files, 1, outputDir,
                        [disk |-> d1, saved |-> <<>>, thrown |-> FALSE],
                        faults)
        indexFailed == ComponentFiles(st.saved) # <<>> /\ faults.indexFail
    IN IF Len(files) = 0
       THEN Result("return", <<>>, NoFilesDisk(outputDir, disk), FALSE)
       ELSE IF st.thrown THEN Result("throw", <<>>, st.disk, FALSE)
       ELSE IF indexFailed /\ IndexFailureOutcome # "logged"
            THEN Result("throw", <<>>, st.disk, FALSE)
       ELSE IF RunsEnrichment(st.saved)
            THEN Result("return", st.saved,
                   ensureBackendIntegration(st.saved, outputDir,
                     createIndexFile(outputDir, st.saved, st.disk, faults),
                     faults),
                   TRUE)
            ELSE Result("return", st.saved, st.disk, FALSE)

(***************************************************************************)
(* The inputs the model draws from                                         *)
(***************************************************************************)
cPlain == Text(<<"x">>)
cImport == Text(<<"Q", "c", "/", "x">>)
cOld == Text(<<"x", "x">>)

SampleEntries ==
  {FileEntry(n, cPlain) : n \in FileNames}
    \cup {FileEntry("Button.tsx", cImport),
          FileEntry("ui/Card.jsx", cImport),
          FileEntry("Button.tsx", Text(<<>>)),
          FileEntry("util.ts", Undefined),
          FileEntry("", cPlain),
          MetaEntry("util.ts", cImport),
          [name |-> "Button.tsx", content |-> Text(<<>>),
           metaFile |-> "util.ts", source |-> cPlain]}

SeqsUpTo(S, n) == UNION {[1..k -> S] : k \in 0..n}

\* a chat carries its files in latestVersion.files or in chat.files
SampleJobs ==
  {[lvFiles |-> fs, rootFiles |-> <<>>] : fs \in SeqsUpTo(SampleEntries, MaxFiles)}
    \cup {[lvFiles |-> <<>>, rootFiles |-> <<e>>] : e \in SampleEntries}

\* the failures of the filesystem a run may meet: none, the k-th write of
\* the download loop, the write of the manifest, the k-th file of
\* fixImportPaths
FaultSet ==
  {NoFaults}
    \cup {[NoFaults EXCEPT !.writeFailAt = k] : k \in 1..MaxFiles}
    \cup {[NoFaults EXCEPT !.indexFail = TRUE]}
    \cup {[NoFaults EXCEPT !.fixFailAt = k] : k \in 1..MaxFiles}

\* a project that has a .env, a src directory and an older Button.tsx
ProjectDisk ==
  [files |-> [p \in AllPaths |->
                IF p = EnvPath THEN Text(<<"env">>)
                ELSE IF p = PathJoin(DefaultOutputDir, "Button.tsx") THEN cOld
                ELSE Absent],
   dirs |-> {<<Cwd, "">>} \cup RootDirs(DefaultOutputDir)]

InitialDisks == {EmptyDisk, ProjectDisk}

\* the jobs and failures the pipeline is run with
PipeJobs ==
  {[lvFiles |-> <<>>, rootFiles |-> <<>>],
   [lvFiles |-> <<FileEntry("Button.tsx", cImport),
                  FileEntry("index.js", cPlain)>>,
    rootFiles |-> <<>>],
   [lvFiles |-> <<FileEntry("Button.tsx", Text(<<>>))>>, rootFiles |-> <<>>],
   [lvFiles |-> <<>>, rootFiles |-> <<MetaEntry("util.ts", cPlain)>>]}

PipeFaults == {NoFaults, [NoFaults EXCEPT !.writeFailAt = 1]}

(***************************************************************************)
(* State                                                                   *)
(***************************************************************************)
VARIABLES
  disk,          \* the filesystem
  outputDir,     \* the destination root
  job,           \* the files of the remote chat
  faults,        \* the filesystem failures of this environment
  runs,          \* the calls of downloadGeneratedCode made so far (SpecMat)
  remoteStatus,  \* latestVersion.status of the remote chat
  remoteReady,   \* whether the remote chat shows its files yet
  pc,            \* where createAndDownload stands
  now,           \* seconds elapsed since startTime
  attempts,      \* waitAndDownloadEnforced: attempts
  lastStatus,    \* waitAndDownloadEnforced: lastStatus
  stage,         \* waitAndDownloadEnforced: final strategies run so far
  retry,         \* createAndDownload: the loop variable retry
  savedFiles,    \* createAndDownload: savedFiles
  chatResult,    \* the fields createAndDownload adds to the chat
  waitResult,    \* how waitAndDownloadEnforced ended
  getChatCalls,  \* number of getChat calls made
  lastPoll,      \* what the last poll of the wait loop observed
  lastStage,     \* what the last retry stage yielded
  createdCompleted, \* line 392: the created chat was already 'completed'
  unauthorized,  \* some remote call of the run failed with a 401
  integrations,  \* number of executions of ensureBackendIntegration
  entry,         \* the method the run is a call of
  deadline,      \* the wait: maxWaitTime, in seconds
  script,        \* the command-line script that was started
  invocation,    \* its environment and arguments
  cliPc,         \* where the script stands
  exitCode,      \* the exit status of the process
  remoteCalls,   \* remote calls the script has issued
  fixInput,      \* fixImportPaths: the content read from a .ts/.tsx file
  fixOutput,     \* fixImportPaths: the content after the replacements
  statusReports, \* waitAndDownloadEnforced: 'Status update' lines logged
  reliable       \* the run is one in which no remote call fails once the
                 \* job is completed and its files are shown

callVars == <<entry, deadline>>
cliVars == <<script, invocation, cliPc, exitCode, remoteCalls>>
fixVars == <<fixInput, fixOutput>>
envVars == <<outputDir, job, faults, runs, callVars, cliVars, fixVars,
             reliable>>
remoteVars == <<remoteStatus, remoteReady>>
waitVars == <<now, attempts, lastStatus, stage, statusReports>>
cadVars == <<pc, retry, savedFiles, chatResult>>
obsVars == <<waitResult, getChatCalls, lastPoll, lastStage>>
runVars == <<createdCompleted, unauthorized, integrations>>
pipeVars == <<remoteVars, waitVars, cadVars, obsVars, runVars>>

vars == <<disk, envVars, pipeVars>>

NoResult ==
  [autoDownloadStatus |-> "none", hasDownloadedFiles |-> FALSE,
   downloadedFiles |-> <<>>, hasDownloadError |-> FALSE]
NoPoll == [status |-> "none", dl |-> "none"]
NoStage == [kind |-> "none", idx |-> 0, result |-> "none", files |-> <<>>]

NoExit == -1
NoInvocation ==
  [hasKey |-> TRUE, command |-> "none", help |-> FALSE, prompt |-> TRUE,
   modelValid |-> TRUE, privacyValid |-> TRUE]

\* fixImportPaths is not called on its own
FixIdle ==
  /\ fixInput = <<>>
  /\ fixOutput = Absent

\* no script was started: the methods are called as a library
CliIdle ==
  /\ script = "none"
  /\ invocation = NoInvocation
  /\ cliPc = "idle"
  /\ exitCode = NoExit
  /\ remoteCalls = 0

\* the pipeline variables before createAndDownload is called
PipeIdle ==
  /\ remoteStatus = "pending"
  /\ remoteReady = FALSE
  /\ pc = "create"
  /\ now = 0
  /\ attempts = 0
  /\ lastStatus = "unknown"
  /\ statusReports = 0
  /\ stage = 0
  /\ retry = 0
  /\ savedFiles = <<>>
  /\ chatResult = NoResult
  /\ waitResult = "none"
  /\ getChatCalls = 0
  /\ lastPoll = NoPoll
  /\ lastStage = NoStage
  /\ createdCompleted = FALSE
  /\ unauthorized = FALSE
  /\ integrations = 0
  /\ entry = "createAndDownload"
  /\ deadline = MaxWaitTime

(***************************************************************************)
(* SpecMat: downloadGeneratedCode called repeatedly on the same chat       *)
(***************************************************************************)
InitMat ==
  /\ disk \in InitialDisks
  /\ outputDir \in OutputDirs
  /\ job \in SampleJobs
  /\ faults \in FaultSet
  /\ runs = <<>>
  /\ PipeIdle
  /\ CliIdle
  /\ FixIdle
  /\ reliable = FALSE

RunDownload ==
  /\ Len(runs) < MaxRuns
  /\ LET r == downloadGeneratedCode(Chat("completed", job.lvFiles, job.rootFiles),
                                    outputDir, disk, faults)
     IN /\ disk' = r.disk
        /\ runs' = Append(runs, [before |-> disk, outcome |-> r.outcome,
                                 saved |-> r.saved, after |-> r.disk])
  /\ UNCHANGED <<outputDir, job, faults, callVars, cliVars, fixVars,
                 reliable, pipeVars>>

NextMat == RunDownload

SpecMat == InitMat /\ [][NextMat]_vars

(***************************************************************************)
(* waitAndDownloadEnforced and createAndDownload                           *)
(***************************************************************************)
PollInterval == 2
ShortBackoff == 3
LongBackoff == 5
NumStrategies == 3
MaxRetries == 5

RemoteStatuses == {"pending", "in_progress", "completed", "failed"}

\* mutant of Backoff: no sleep after a poll that threw
Backoff_none(n) == IF n % 5 = 0 THEN 1 ELSE 0

\* lines 310-315: the sleep after a poll that threw
Backoff(n) == IF n % 5 = 0 THEN LongBackoff ELSE ShortBackoff

\* lines 322-326: the delay of final strategy i (0-based)
FinalDelay(i) == CASE i = 0 -> 0 [] i = 1 -> 5 [] OTHER -> 15

\* line 421: 10000 + retry * 5000 ms
RetryDelay(n) == 10 + n * 5

DlKind(r) ==
  IF r.outcome = "throw" THEN "throw"
  ELSE IF Len(r.saved) > 0 THEN "files" ELSE "empty"

\* mutant of PollRaisedOutcome: the error leaves the loop
PollRaisedOutcome_rethrow == "raise"

\* lines 266-268 and 306-316: what the loop does after getChat threw
PollRaisedOutcome == "backoff"

\* mutant of PollCompletedOutcome: the loop never returns the files
PollCompletedOutcome_neverReturns(r) ==
  IF r.outcome = "throw" THEN "backoff" ELSE "sleep"

\* mutant of PollCompletedOutcome: an empty list is returned as well
PollCompletedOutcome_returnsEmpty(r) ==
  IF r.outcome = "throw" THEN "backoff" ELSE "return"

\* lines 276-283 and 306: what the loop does after a download on 'completed'
PollCompletedOutcome(r) ==
  IF r.outcome = "throw" THEN "backoff"
  ELSE IF Len(r.saved) > 0 THEN "return" ELSE "sleep"

\* mutant of PollFailedOutcome: the error of line 289 leaves the wait
PollFailedOutcome_rethrow(r) ==
  IF r.outcome = "throw" THEN "raise" ELSE "return"

\* lines 284-291 and 306: what the loop does after a download on 'failed';
\* the error thrown at line 289 is thrown inside the try of line 266
PollFailedOutcome(r) ==
  IF r.outcome = "throw" THEN "backoff" ELSE "return"

\* mutant of StrategyOutcome: the catch of line 336 is missing
StrategyOutcome_rethrow(r) ==
  IF r.outcome = "throw" THEN "raise"
  ELSE IF Len(r.saved) > 0 THEN "return" ELSE "next"

\* mutant of StrategyOutcome: the loop goes on after a non-empty list
StrategyOutcome_noReturn(r) == "next"

\* lines 328-338: one final strategy
StrategyOutcome(r) ==
  IF r.outcome = "throw" THEN "next"
  ELSE IF Len(r.saved) > 0 THEN "return" ELSE "next"

\* mutant of RetryOutcome: the catch of line 433 is missing
RetryOutcome_rethrow(r) ==
  IF r.outcome = "throw" THEN "raise"
  ELSE IF Len(r.saved) > 0 THEN "break" ELSE "next"

\* lines 423-435: one aggressive retry
RetryOutcome(r) ==
  IF r.outcome = "throw" THEN "next"
  ELSE IF Len(r.saved) > 0 THEN "break" ELSE "next"

\* the errors a remote call fails with: a 401 of the service, or another
\* failure (network, 5xx); createChat rewords them at lines 76-82, getChat
\* rethrows them as they are at lines 120-123
Errors == {"unauthorized", "transient"}
GetChatOutcomes == {"ok"} \cup Errors

\* the outcomes a getChat call can have in the state: any, except in a
\* reliable run once the job is completed and shows its files
Replies ==
  IF reliable /\ remoteStatus = "completed" /\ remoteReady
  THEN {"ok"}
  ELSE GetChatOutcomes

\* what a getChat call and the download that made it leave behind
Observe(reply, r) ==
  /\ unauthorized' = (unauthorized \/ reply = "unauthorized")
  /\ integrations' = integrations + (IF r.integrated THEN 1 ELSE 0)
  /\ UNCHANGED createdCompleted

\* mutant of AfterCreate: the wait is entered whatever the status
AfterCreate_alwaysWaits(st) == "poll"

\* lines 392-398: an already completed chat is downloaded at once
AfterCreate(st) == IF st = "completed" THEN "immediate" ELSE "poll"

\* the reply of getChat
Reply(raises) ==
  IF raises THEN Raised
  ELSE Chat(remoteStatus,
            IF remoteReady THEN job.lvFiles ELSE <<>>,
            IF remoteReady THEN job.rootFiles ELSE <<>>)

Download(raises) ==
  downloadGeneratedCode(Reply(raises), outputDir, disk, faults)

\* mutant of Success: the status is set but the files are not attached
Success_noFiles(status, files) ==
  [autoDownloadStatus |-> status, hasDownloadedFiles |-> FALSE,
   downloadedFiles |-> <<>>, hasDownloadError |-> FALSE]

\* lines 400-412: savedFiles.length > 0
Success(status, files) ==
  [autoDownloadStatus |-> status, hasDownloadedFiles |-> TRUE,
   downloadedFiles |-> files, hasDownloadError |-> FALSE]

\* lines 446-454
ErrorResult ==
  [chatResult EXCEPT !.autoDownloadStatus = "error", !.hasDownloadError = TRUE]

\* createAndDownload from line 400 on, with savedFiles = files
AfterDownload(files) ==
  /\ savedFiles' = files
  /\ IF Len(files) > 0
     THEN /\ pc' = "done"
          /\ chatResult' = Success("success", files)
          /\ retry' = retry
     ELSE /\ pc' = "retry"
          /\ chatResult' = chatResult
          /\ retry' = 1

\* the wait returns files: to createAndDownload (line 397), or to the
\* caller of the wait when the run is a call of the wait itself
EndWait(files) ==
  /\ waitResult' = IF Len(files) > 0 THEN "files" ELSE "empty"
  /\ IF entry = "createAndDownload"
     THEN AfterDownload(files)
     ELSE /\ pc' = "returned"
          /\ savedFiles' = files
          /\ UNCHANGED <<chatResult, retry>>

\* the wait throws: caught at line 446 of createAndDownload, or raised to
\* the caller of the wait
WaitRaises ==
  /\ waitResult' = "raised"
  /\ IF entry = "createAndDownload"
     THEN pc' = "done" /\ chatResult' = ErrorResult
     ELSE pc' = "raised" /\ chatResult' = chatResult
  /\ UNCHANGED <<savedFiles, retry>>

StayInLoop == UNCHANGED <<pc, retry, savedFiles, chatResult, waitResult>>

InitPipe ==
  /\ disk \in InitialDisks
  /\ outputDir \in OutputDirs
  /\ job \in PipeJobs
  /\ faults \in PipeFaults
  /\ runs = <<>>
  /\ PipeIdle
  /\ CliIdle
  /\ FixIdle
  /\ reliable = FALSE

\* createChat, lines 64-71: the chat is created
CreateChat ==
  /\ pc = "create"
  /\ \E st \in RemoteStatuses :
       /\ remoteStatus' = st
       /\ createdCompleted' = (st = "completed")
       /\ pc' = AfterCreate(st)
  /\ UNCHANGED <<disk, envVars, remoteReady, waitVars, retry, savedFiles,
                 chatResult, obsVars, unauthorized, integrations>>

\* createChat, lines 72-85: v0.chats.create threw, createAndDownload rejects
CreateChatRaises ==
  /\ pc = "create"
  /\ pc' = "rejected"
  /\ \E e \in Errors : unauthorized' = (e = "unauthorized")
  /\ UNCHANGED <<disk, envVars, remoteVars, waitVars, retry, savedFiles,
                 chatResult, obsVars, createdCompleted, integrations>>

\* the remote service moves the job on
RemoteAdvance ==
  /\ pc \in {"poll", "final", "retry"}
  /\ \/ remoteStatus = "pending" /\ remoteStatus' = "in_progress"
     \/ remoteStatus \in {"pending", "in_progress"}
          /\ remoteStatus' \in {"completed", "failed"}
  /\ UNCHANGED <<disk, envVars, remoteReady, waitVars, cadVars, obsVars,
                 runVars>>

\* the remote service shows the files of the job
RemotePublish ==
  /\ pc \in {"immediate", "poll", "final", "retry"}
  /\ ~remoteReady
  /\ remoteReady' = TRUE
  /\ UNCHANGED <<disk, envVars, remoteStatus, waitVars, cadVars, obsVars,
                 runVars>>

\* lines 392-394: the created chat is already completed
ImmediateDownload ==
  /\ pc = "immediate"
  /\ \E reply \in Replies :
       LET r == Download(reply # "ok")
       IN /\ disk' = r.disk
          /\ Observe(reply, r)
          /\ getChatCalls' = getChatCalls + 1
          /\ IF r.outcome = "throw"
             THEN /\ pc' = "done"
                  /\ chatResult' = ErrorResult
                  /\ UNCHANGED <<savedFiles, retry>>
             ELSE AfterDownload(r.saved)
  /\ UNCHANGED <<envVars, remoteVars, waitVars, waitResult, lastPoll,
                 lastStage>>

\* mutant of ReportsStatus: every successful poll is reported
ReportsStatus_always(currentStatus, last) == TRUE

\* line 271: the status is logged, and kept, when it differs from lastStatus
ReportsStatus(currentStatus, last) == currentStatus # last

\* lines 269-274 for a poll that returned currentStatus
ObserveStatus(currentStatus) ==
  /\ statusReports' = statusReports +
                        (IF ReportsStatus(currentStatus, lastStatus) THEN 1 ELSE 0)
  /\ lastStatus' = IF ReportsStatus(currentStatus, lastStatus)
                   THEN currentStatus ELSE lastStatus

\* mutant of InLoop: the loop is left one interval early
InLoop_early == pc = "poll" /\ now + 2 < deadline

\* mutant of InLoop: the loop makes one more iteration
InLoop_late == pc = "poll" /\ now < deadline + 2

\* line 265 (sdk.js line 283): while (Date.now() - startTime < maxWaitMs)
InLoop == pc = "poll" /\ now < deadline

\* the run executes the enforced wait (this file) or the wait of sdk.js
Enforced == entry # "waitAndDownload"

\* one iteration of the loop of line 265 in which getChat throws
PollRaises ==
  /\ InLoop
  /\ Enforced
  /\ Replies # {"ok"}
  /\ attempts' = attempts + 1
  /\ getChatCalls' = getChatCalls + 1
  /\ lastPoll' = [status |-> "raised", dl |-> "none"]
  /\ \E e \in Errors : unauthorized' = (unauthorized \/ e = "unauthorized")
  /\ IF PollRaisedOutcome = "backoff"
     THEN /\ now' = now + Backoff(attempts')
          /\ StayInLoop
     ELSE /\ now' = now
          /\ WaitRaises
  /\ UNCHANGED <<disk, envVars, remoteVars, lastStatus, stage, lastStage,
                 createdCompleted, integrations, statusReports>>

\* one iteration in which the status is neither 'completed' nor 'failed'
PollWaiting ==
  /\ InLoop
  /\ Enforced
  /\ remoteStatus \notin {"completed", "failed"}
  /\ attempts' = attempts + 1
  /\ getChatCalls' = getChatCalls + 1
  /\ ObserveStatus(remoteStatus)
  /\ lastPoll' = [status |-> remoteStatus, dl |-> "none"]
  /\ now' = now + PollInterval
  /\ StayInLoop
  /\ UNCHANGED <<disk, envVars, remoteVars, stage, lastStage, runVars>>

\* one iteration in which the status is 'completed', lines 276-283
PollCompleted ==
  /\ InLoop
  /\ Enforced
  /\ remoteStatus = "completed"
  /\ \E reply \in Replies :
       LET r == Download(reply # "ok")
           o == PollCompletedOutcome(r)
       IN /\ disk' = r.disk
          /\ Observe(reply, r)
          /\ lastPoll' = [status |-> "completed", dl |-> DlKind(r)]
          /\ CASE o = "return" -> now' = now /\ EndWait(r.saved)
               [] o = "sleep" -> now' = now + PollInterval /\ StayInLoop
               [] o = "backoff" ->
                    now' = now + Backoff(attempts + 1) /\ StayInLoop
               [] OTHER -> now' = now /\ WaitRaises
  /\ attempts' = attempts + 1
  /\ getChatCalls' = getChatCalls + 2
  /\ ObserveStatus("completed")
  /\ UNCHANGED <<envVars, remoteVars, stage, lastStage>>

\* one iteration in which the status is 'failed', lines 284-291
PollFailed ==
  /\ InLoop
  /\ Enforced
  /\ remoteStatus = "failed"
  /\ \E reply \in Replies :
       LET r == Download(reply # "ok")
           o == PollFailedOutcome(r)
       IN /\ disk' = r.disk
          /\ Observe(reply, r)
          /\ lastPoll' = [status |-> "failed", dl |-> DlKind(r)]
          /\ CASE o = "return" -> now' = now /\ EndWait(r.saved)
               [] o = "backoff" ->
                    now' = now + Backoff(attempts + 1) /\ StayInLoop
               [] OTHER -> now' = now /\ WaitRaises
  /\ attempts' = attempts + 1
  /\ getChatCalls' = getChatCalls + 2
  /\ ObserveStatus("failed")
  /\ UNCHANGED <<envVars, remoteVars, stage, lastStage>>

\* line 265 is false: the loop is left, line 319
PollTimeout ==
  /\ pc = "poll"
  /\ ~InLoop
  /\ pc' = "final"
  /\ UNCHANGED <<disk, envVars, remoteVars, waitVars, retry, savedFiles,
                 chatResult, obsVars, runVars>>

\* one iteration of the loop of line 328; after the last one, line 343
FinalStrategy ==
  /\ pc = "final"
  /\ Enforced
  /\ stage < NumStrategies
  /\ \E reply \in Replies :
       LET r == Download(reply # "ok")
           o == StrategyOutcome(r)
       IN /\ disk' = r.disk
          /\ Observe(reply, r)
          /\ lastStage' = [kind |-> "final", idx |-> stage + 1,
                           result |-> DlKind(r), files |-> r.saved]
          /\ CASE o = "return" -> EndWait(r.saved)
               [] o = "next" ->
                    IF stage + 1 < NumStrategies
                    THEN StayInLoop
                    ELSE EndWait(<<>>)
               [] OTHER -> WaitRaises
  /\ now' = now + FinalDelay(stage)
  /\ stage' = stage + 1
  /\ getChatCalls' = getChatCalls + 1
  /\ UNCHANGED <<envVars, remoteVars, attempts, lastStatus, lastPoll,
                 statusReports>>

\* one iteration of the loop of line 419; after the last one, lines 438-443
AggressiveRetry ==
  /\ pc = "retry"
  /\ retry <= MaxRetries
  /\ \E reply \in Replies :
       LET r == Download(reply # "ok")
           o == RetryOutcome(r)
           sf == IF r.outcome = "return" THEN r.saved ELSE savedFiles
       IN /\ disk' = r.disk
          /\ Observe(reply, r)
          /\ lastStage' = [kind |-> "retry", idx |-> retry,
                           result |-> DlKind(r), files |-> r.saved]
          /\ CASE o = "break" ->
                    /\ savedFiles' = sf
                    /\ chatResult' = Success("retry_success", sf)
                    /\ pc' = "done"
                    /\ retry' = retry
               [] o = "next" ->
                    /\ savedFiles' = sf
                    /\ retry' = retry + 1
                    /\ IF retry < MaxRetries
                       THEN pc' = "retry" /\ chatResult' = chatResult
                       ELSE /\ pc' = "done"
                            /\ chatResult' =
                                 IF Len(sf) = 0
                                 THEN [chatResult EXCEPT
                                         !.autoDownloadStatus = "failed_will_retry"]
                                 ELSE chatResult
               [] OTHER ->
                    /\ pc' = "done"
                    /\ chatResult' = ErrorResult
                    /\ UNCHANGED <<savedFiles, retry>>
  /\ now' = now + RetryDelay(retry)
  /\ getChatCalls' = getChatCalls + 1
  /\ UNCHANGED <<envVars, remoteVars, attempts, lastStatus, stage,
                 waitResult, lastPoll, statusReports>>

Next ==
  \/ CreateChat
  \/ CreateChatRaises
  \/ RemoteAdvance
  \/ RemotePublish
  \/ ImmediateDownload
  \/ PollRaises
  \/ PollWaiting
  \/ PollCompleted
  \/ PollFailed
  \/ PollTimeout
  \/ FinalStrategy
  \/ AggressiveRetry

Spec == InitPipe /\ [][Next]_vars

(***************************************************************************)
(* SpecFair: createAndDownload keeps running (every remote call returns or *)
(* fails, every sleep elapses), in runs that are reliable or not           *)
(***************************************************************************)
InitFair ==
  /\ disk \in InitialDisks
  /\ outputDir \in OutputDirs
  /\ job \in PipeJobs
  /\ faults \in PipeFaults
  /\ runs = <<>>
  /\ PipeIdle
  /\ CliIdle
  /\ FixIdle
  /\ reliable \in BOOLEAN

\* the steps of the program itself; the remote job's are not among them
Step ==
  \/ CreateChat
  \/ CreateChatRaises
  \/ ImmediateDownload
  \/ PollRaises
  \/ PollWaiting
  \/ PollCompleted
  \/ PollFailed
  \/ PollTimeout
  \/ FinalStrategy
  \/ AggressiveRetry

\* createAndDownload has returned or rejected
Ended == pc \in {"done", "rejected"}

\* The program is one sequential async function: every promise it awaits
\* settles, so it takes its next step as long as it has one.  That is
\* WF_vars(Step), that is []<>~(ENABLED <<Step>>_vars) \/ []<><<Step>>_vars;
\* a step is enabled exactly when the run has not ended, and the second
\* conjunct is written with that state predicate in place of ENABLED.
Fairness ==
  /\ WF_vars(CreateChat \/ CreateChatRaises)
  /\ ([]<>Ended \/ []<><<Step>>_vars)

SpecFair == InitFair /\ [][Next]_vars /\ Fairness

(***************************************************************************)
(* SpecWait: a call of the wait itself, waitAndDownloadEnforced or the     *)
(* waitAndDownload of v0-chat-creator-sdk.js, with any deadline            *)
(***************************************************************************)
SdkPollInterval == 2
SdkBackoff == 5

\* downloadGeneratedCode of v0-chat-creator-sdk.js: the same steps without
\* ensureBackendIntegration
sdkDownloadGeneratedCode(resp, dir, d, f) ==
  IF resp.raised THEN Result("throw", <<>>, d, FALSE)
  ELSE
    LET files == SelectFiles(resp)
        d1 == MkdirP(d, RootDirs(dir))
        st == SaveFiles(files, 1, dir,
                        [disk |-> d1, saved |-> <<>>, thrown |-> FALSE], f)
    IN IF Len(files) = 0 THEN Result("return", <<>>, d, FALSE)
       ELSE IF st.thrown THEN Result("throw", <<>>, st.disk, FALSE)
       ELSE IF Len(st.saved) > 0
            THEN Result("return", st.saved,
                        createIndexFile(dir, st.saved, st.disk, f), FALSE)
            ELSE Result("return", st.saved, st.disk, FALSE)

SdkDownload(raises) ==
  sdkDownloadGeneratedCode(Reply(raises), outputDir, disk, faults)

InitWait ==
  /\ disk \in InitialDisks
  /\ outputDir = DefaultOutputDir
  /\ job \in PipeJobs
  /\ faults \in PipeFaults
  /\ runs = <<>>
  /\ entry \in {"waitAndDownloadEnforced", "waitAndDownload"}
  /\ deadline \in 1..MaxWaitTime
  /\ remoteStatus \in RemoteStatuses
  /\ remoteReady = FALSE
  /\ pc = "poll"
  /\ now = 0
  /\ attempts = 0
  /\ lastStatus = "unknown"
  /\ statusReports = 0
  /\ stage = 0
  /\ retry = 0
  /\ savedFiles = <<>>
  /\ chatResult = NoResult
  /\ waitResult = "none"
  /\ getChatCalls = 0
  /\ lastPoll = NoPoll
  /\ lastStage = NoStage
  /\ createdCompleted = FALSE
  /\ unauthorized = FALSE
  /\ integrations = 0
  /\ CliIdle
  /\ FixIdle
  /\ reliable = FALSE

\* sdk.js lines 283-286 and 306-311: getChat throws, the loop sleeps 5 s
SdkPollRaises ==
  /\ InLoop
  /\ ~Enforced
  /\ Replies # {"ok"}
  /\ attempts' = attempts + 1
  /\ getChatCalls' = getChatCalls + 1
  /\ lastPoll' = [status |-> "raised", dl |-> "none"]
  /\ \E e \in Errors : unauthorized' = (unauthorized \/ e = "unauthorized")
  /\ now' = now + SdkBackoff
  /\ StayInLoop
  /\ UNCHANGED <<disk, envVars, remoteVars, lastStatus, stage, lastStage,
                 createdCompleted, integrations, statusReports>>

\* sdk.js lines 283-304: the status is neither 'completed' nor 'failed'
SdkPollWaiting ==
  /\ InLoop
  /\ ~Enforced
  /\ remoteStatus \notin {"completed", "failed"}
  /\ attempts' = attempts + 1
  /\ getChatCalls' = getChatCalls + 1
  /\ lastStatus' = remoteStatus
  /\ lastPoll' = [status |-> remoteStatus, dl |-> "none"]
  /\ now' = now + SdkPollInterval
  /\ StayInLoop
  /\ UNCHANGED <<disk, envVars, remoteVars, stage, lastStage, runVars,
                 statusReports>>

\* sdk.js lines 288-290: the status is 'completed'; the list of the
\* download is returned, a throw of the download is caught at line 306
SdkPollCompleted ==
  /\ InLoop
  /\ ~Enforced
  /\ remoteStatus = "completed"
  /\ \E reply \in Replies :
       LET r == SdkDownload(reply # "ok")
       IN /\ disk' = r.disk
          /\ Observe(reply, r)
          /\ lastPoll' = [status |-> "completed", dl |-> DlKind(r)]
          /\ IF r.outcome = "return"
             THEN now' = now /\ EndWait(r.saved)
             ELSE now' = now + SdkBackoff /\ StayInLoop
  /\ attempts' = attempts + 1
  /\ getChatCalls' = getChatCalls + 2
  /\ lastStatus' = "completed"
  /\ UNCHANGED <<envVars, remoteVars, stage, lastStage, statusReports>>

\* mutant of SdkFailedOutcome: the error of line 292 leaves the wait
SdkFailedOutcome_raise == "raise"

\* sdk.js lines 291-293 and 306: the error thrown at line 292 is thrown
\* inside the try of line 284
SdkFailedOutcome == "backoff"

\* sdk.js lines 291-293: the status is 'failed'; the error thrown at line
\* 292 is caught at line 306
SdkPollFailed ==
  /\ InLoop
  /\ ~Enforced
  /\ remoteStatus = "failed"
  /\ attempts' = attempts + 1
  /\ getChatCalls' = getChatCalls + 1
  /\ lastStatus' = lastStatus
  /\ lastPoll' = [status |-> "failed", dl |-> "none"]
  /\ IF SdkFailedOutcome = "backoff"
     THEN now' = now + SdkBackoff /\ StayInLoop
     ELSE now' = now /\ WaitRaises
  /\ UNCHANGED <<disk, envVars, remoteVars, stage, lastStage, runVars,
                 statusReports>>

\* sdk.js lines 314-324: the one download after the loop
SdkFinalDownload ==
  /\ pc = "final"
  /\ ~Enforced
  /\ \E reply \in Replies :
       LET r == SdkDownload(reply # "ok")
       IN /\ disk' = r.disk
          /\ Observe(reply, r)
          /\ lastStage' = [kind |-> "final", idx |-> 1,
                           result |-> DlKind(r), files |-> r.saved]
          /\ EndWait(IF r.outcome = "return" THEN r.saved ELSE <<>>)
  /\ stage' = stage + 1
  /\ getChatCalls' = getChatCalls + 1
  /\ UNCHANGED <<envVars, remoteVars, now, attempts, lastStatus, lastPoll,
                 statusReports>>

NextWait ==
  \/ RemoteAdvance
  \/ RemotePublish
  \/ PollRaises
  \/ PollWaiting
  \/ PollCompleted
  \/ PollFailed
  \/ PollTimeout
  \/ FinalStrategy
  \/ SdkPollRaises
  \/ SdkPollWaiting
  \/ SdkPollCompleted
  \/ SdkPollFailed
  \/ SdkFinalDownload

SpecWait == InitWait /\ [][NextWait]_vars

(***************************************************************************)
(* SpecLongWait: waitAndDownloadEnforced called on a chat without files    *)
(* with a deadline that lets the loop make a fifth attempt                 *)
(***************************************************************************)
InitLongWait ==
  /\ disk = EmptyDisk
  /\ outputDir = DefaultOutputDir
  /\ job = [lvFiles |-> <<>>, rootFiles |-> <<>>]
  /\ faults = NoFaults
  /\ runs = <<>>
  /\ entry = "waitAndDownloadEnforced"
  /\ deadline = LongDeadline
  /\ remoteStatus \in RemoteStatuses
  /\ remoteReady = FALSE
  /\ pc = "poll"
  /\ now = 0
  /\ attempts = 0
  /\ lastStatus = "unknown"
  /\ statusReports = 0
  /\ stage = 0
  /\ retry = 0
  /\ savedFiles = <<>>
  /\ chatResult = NoResult
  /\ waitResult = "none"
  /\ getChatCalls = 0
  /\ lastPoll = NoPoll
  /\ lastStage = NoStage
  /\ createdCompleted = FALSE
  /\ unauthorized = FALSE
  /\ integrations = 0
  /\ CliIdle
  /\ FixIdle
  /\ reliable = FALSE

NextLongWait ==
  \/ RemoteAdvance
  \/ RemotePublish
  \/ PollRaises
  \/ PollWaiting
  \/ PollCompleted
  \/ PollFailed
  \/ PollTimeout
  \/ FinalStrategy

SpecLongWait == InitLongWait /\ [][NextLongWait]_vars

(***************************************************************************)
(* SpecCli: the four command-line scripts, from their start to the exit of *)
(* the process.  basic = v0-chat-creator.js (part_001), sdk =              *)
(* v0-chat-creator-sdk.js, enforced = v0-chat-creator-enforced.js          *)
(* (part_000), smart = smart-v0-generator.js (sdk.js lines 1021-1339)      *)
(***************************************************************************)
Scripts == {"basic", "sdk", "enforced", "smart"}

\* the environment and the parsed arguments: V0_API_KEY is set, the first
\* argument is the download or list command of the sdk script, options.help,
\* options.prompt is non-empty, options.modelId is one of validModels,
\* options.privacy is one of validPrivacy
Invocations ==
  [hasKey : BOOLEAN, command : {"none", "download", "list"}, help : BOOLEAN,
   prompt : BOOLEAN, modelValid : BOOLEAN, privacyValid : BOOLEAN]

Exit(code) == [to |-> "exited", code |-> code]
Go(to) == [to |-> to, code |-> NoExit]

\* mutant of HelpOutcome: help is reported as a failure
HelpOutcome_failure == Exit(1)

\* showHelp(); process.exit(0): part_000 lines 603-606, part_001 lines
\* 400-403, sdk.js lines 773-776 and 1296-1299
HelpOutcome == Exit(0)

\* part_000 lines 616-630, part_001 lines 413-427, sdk.js lines 786-800;
\* the main of the smart generator (sdk.js lines 1281-1312) has no such test
ValidatesOptions(sc) == sc # "smart"

\* the synchronous part of the main of a script
MainOutcome(sc, a) ==
  IF ~a.hasKey THEN Exit(1)
  ELSE IF sc = "sdk" /\ a.command # "none" THEN Go("command")
  ELSE IF a.help THEN HelpOutcome
  ELSE IF ~a.prompt THEN Exit(1)
  ELSE IF ValidatesOptions(sc) /\ ~a.modelValid THEN Exit(1)
  ELSE IF ValidatesOptions(sc) /\ ~a.privacyValid THEN Exit(1)
  ELSE Go("creating")

InitCli ==
  /\ disk = EmptyDisk
  /\ outputDir = DefaultOutputDir
  /\ job = [lvFiles |-> <<>>, rootFiles |-> <<>>]
  /\ faults = NoFaults
  /\ runs = <<>>
  /\ PipeIdle
  /\ script \in Scripts
  /\ invocation \in Invocations
  /\ invocation.command # "none" => script = "sdk"
  /\ cliPc = "start"
  /\ exitCode = NoExit
  /\ remoteCalls = 0
  /\ FixIdle
  /\ reliable = FALSE

CliFrame == UNCHANGED <<disk, outputDir, job, faults, runs, callVars,
                        pipeVars, script, invocation, fixVars, reliable>>

\* the main of the script up to process.exit or to its asynchronous call
Main ==
  /\ cliPc = "start"
  /\ cliPc' = MainOutcome(script, invocation).to
  /\ exitCode' = MainOutcome(script, invocation).code
  /\ UNCHANGED remoteCalls
  /\ CliFrame

\* sdk.js lines 754-767: downloadFromChatId or listRecentChats calls the
\* service; the process exits with 0, or with 1 when the call failed
\* (lines 434-437)
RunCommand ==
  /\ cliPc = "command"
  /\ remoteCalls' = remoteCalls + 1
  /\ cliPc' = "exited"
  /\ exitCode' \in {0, 1}
  /\ CliFrame

\* createChat: the message test of line 50, then v0.chats.create (line 67);
\* a rejection reaches the catch of the main, which exits with 1
CreateChatCall ==
  /\ cliPc = "creating"
  /\ IF ~invocation.prompt
     THEN /\ remoteCalls' = remoteCalls
          /\ cliPc' = "exited"
          /\ exitCode' = 1
     ELSE /\ remoteCalls' = remoteCalls + 1
          /\ \/ cliPc' = "created" /\ exitCode' = exitCode
             \/ cliPc' = "exited" /\ exitCode' = 1
  /\ CliFrame

\* the rest of the run after the chat was created: it catches its own
\* failures, and the process ends with status 0
Finish ==
  /\ cliPc = "created"
  /\ cliPc' = "exited"
  /\ exitCode' = 0
  /\ UNCHANGED remoteCalls
  /\ CliFrame

NextCli ==
  \/ Main
  \/ RunCommand
  \/ CreateChatCall
  \/ Finish

SpecCli == InitCli /\ [][NextCli]_vars

(***************************************************************************)
(* SpecFix: the replacements of fixImportPaths applied to one content      *)
(***************************************************************************)
\* the pieces contents are made of: the four prefixes of the table, two
\* prefixes that differ from `from "./ui/` and `from "../ui/` in the
\* characters the pattern writes as '.', a canonical prefix and plain text
Fragments ==
  {importFixes[k].wrongPath : k \in 1..Len(importFixes)}
    \cup {<<"Q", "x", "/", "u", "i", "/">>,
          <<"Q", "x", "@", "/", "u", "i", "/">>,
          <<"Q", "@", "/", "c", "/">>,
          <<"x">>,
          <<"Q">>}

RECURSIVE Concat(_)
Concat(ss) == IF ss = <<>> THEN <<>> ELSE Head(ss) \o Concat(Tail(ss))

Contents == {Concat(fs) : fs \in SeqsUpTo(Fragments, MaxFragments)}

InitFix ==
  /\ disk = EmptyDisk
  /\ outputDir = DefaultOutputDir
  /\ job = [lvFiles |-> <<>>, rootFiles |-> <<>>]
  /\ faults = NoFaults
  /\ runs = <<>>
  /\ PipeIdle
  /\ CliIdle
  /\ fixInput \in Contents
  /\ fixOutput = Absent
  /\ reliable = FALSE

\* lines 165-181 of backend-integration-config.js on the content of one
\* .ts/.tsx file
FixContent ==
  /\ fixOutput = Absent
  /\ fixOutput' = Text(ApplyFixes(fixInput, 1))
  /\ UNCHANGED <<disk, outputDir, job, faults, runs, callVars, cliVars,
                 pipeVars, fixInput, reliable>>

NextFix == FixContent

SpecFix == InitFix /\ [][NextFix]_vars

(***************************************************************************)
(* Properties of downloadGeneratedCode (checked under SpecMat)             *)
(***************************************************************************)
Range(f) == {f[k] : k \in DOMAIN f}

JobFiles == IF job.lvFiles # <<>> THEN job.lvFiles ELSE job.rootFiles

\* an output as the properties read it: its name and content, taken from
\* the (name, content) pair when both are present and non-empty, otherwise
\* from the (meta.file, source) pair
Present(c) == c.kind = "text" /\ Len(c.toks) > 0
HasPair(e) == e.name # "" /\ Present(e.content)
HasMetaPair(e) == e.metaFile # "" /\ Present(e.source)
Missing(e) == ~HasPair(e) /\ ~HasMetaPair(e)
OutName(e) == IF HasPair(e) THEN e.name ELSE e.metaFile
OutContent(e) == IF HasPair(e) THEN e.content ELSE e.source
OutPath(e) == <<outputDir, OutName(e)>>

IsPresent(e) == ~Missing(e)
ValidOutputs == SelectSeq(JobFiles, IsPresent)

Returned(r) == r.outcome = "return"

\* C7: a call of downloadGeneratedCode that returns, returns exactly one
\* path per well-formed output, N paths for N well-formed outputs, in the
\* order of the input.
C7_OnePathPerOutputInOrder ==
  \A n \in DOMAIN runs :
    Returned(runs[n]) =>
      /\ Len(runs[n].saved) = Len(ValidOutputs)
      /\ \A k \in 1..Len(ValidOutputs) :
           runs[n].saved[k] = OutPath(ValidOutputs[k])

C7_Witness ==
  \E n \in DOMAIN runs :
    /\ Returned(runs[n])
    /\ Len(ValidOutputs) = 2
    /\ Len(runs[n].saved) = 2
    /\ runs[n].saved[1] # runs[n].saved[2]

\* C8, as claimed: after downloadGeneratedCode returns, every returned path
\* holds on disk exactly the content of the output it was written from.
C8_ByteIdentical ==
  \A n \in DOMAIN runs :
    Returned(runs[n]) =>
      \A k \in 1..Len(runs[n].saved) :
        k <= Len(ValidOutputs) =>
          runs[n].after.files[runs[n].saved[k]] = OutContent(ValidOutputs[k])

\* the content of the last valid output written to path p
LastContent(p) ==
  LET ks == {k \in 1..Len(ValidOutputs) : OutPath(ValidOutputs[k]) = p}
      last == CHOOSE k \in ks : \A j \in ks : j <= k
  IN OutContent(ValidOutputs[last])

\* the four literal replacements of the import table, applied to a content
Normalized(c) == Text(ApplyFixes(c.toks, 1))

\* C8, amended: after downloadGeneratedCode returns, every returned path
\* holds the content of the last output written to that path, byte for byte,
\* except that a .ts/.tsx path holds it with the import prefixes rewritten
\* by fixImportPaths (unrewritten only if fixImportPaths failed), index.js at
\* the destination root holds the manifest when the manifest was written,
\* and lib/api/client.ts at the destination root may hold the generated API
\* helper.
C8_ContentUpToEnrichment ==
  \A n \in DOMAIN runs :
    Returned(runs[n]) =>
      \A k \in 1..Len(runs[n].saved) :
        LET p == runs[n].saved[k]
            onDisk == runs[n].after.files[p]
            c == LastContent(p)
            manifest ==
              \E j \in 1..Len(runs[n].saved) :
                 LET q == runs[n].saved[j]
                 IN \/ q[2] \in {"Button.tsx", "ui/Card.jsx", "index.tsx",
                                 "menu.js"}
        IN CASE p = <<outputDir, "index.js">> ->
                  onDisk = IF manifest /\ ~faults.indexFail
                           THEN IndexContent(runs[n].saved) ELSE c
             [] p = <<outputDir, "lib/api/client.ts">> ->
                  onDisk \in {ApiHelperContent, Normalized(c), c}
             [] p[2] \in {"Button.tsx", "util.ts", "index.tsx"} ->
                  /\ onDisk \in {c, Normalized(c)}
                  /\ faults.fixFailAt = 0 => onDisk = Normalized(c)
             [] OTHER -> onDisk = c

\* a run that returned a rewritten .tsx file, a manifest written over a
\* downloaded index.js, or a .jsx file with an import prefix left as it was
C8_Witness ==
  \E n \in DOMAIN runs :
    /\ Returned(runs[n])
    /\ \E k \in 1..Len(runs[n].saved) :
         LET p == runs[n].saved[k]
         IN /\ p[2] = "ui/Card.jsx"
            /\ LastContent(p) = cImport
            /\ runs[n].after.files[p] = cImport
    /\ \E k \in 1..Len(runs[n].saved) :
         LET p == runs[n].saved[k]
         IN /\ p[2] = "Button.tsx"
            /\ LastContent(p) = cImport
            /\ runs[n].after.files[p] # cImport

\* C9: an output whose name or content is missing (an empty-string content
\* counts as missing) is skipped: it adds no path to the returned list, its
\* file is not written, and it raises no error; every other output is still
\* written and returned.
C9_SkipsMissing ==
  \A n \in DOMAIN runs :
    /\ faults = NoFaults => Returned(runs[n])
    /\ Returned(runs[n]) =>
         /\ Len(runs[n].saved) =
              Cardinality({k \in DOMAIN JobFiles : ~Missing(JobFiles[k])})
         /\ \A k \in DOMAIN JobFiles :
              LET e == JobFiles[k]
                  p == <<outputDir, e.name>>
              IN IF Missing(e)
                 THEN (/\ e.name # ""
                       /\ \A j \in DOMAIN JobFiles :
                            ~Missing(JobFiles[j]) => OutPath(JobFiles[j]) # p
                       /\ e.name \notin {"index.js", "lib/api/client.ts"})
                      => /\ p \notin Range(runs[n].saved)
                         /\ runs[n].after.files[p] = runs[n].before.files[p]
                 ELSE /\ OutPath(e) \in Range(runs[n].saved)
                      /\ runs[n].after.files[OutPath(e)] # Absent

\* an output with a name and an empty-string content was skipped while
\* another output of the same call was written
C9_Witness ==
  \E n \in DOMAIN runs :
    /\ Returned(runs[n])
    /\ Len(runs[n].saved) = 1
    /\ \E k \in DOMAIN JobFiles :
         /\ JobFiles[k].name = "Button.tsx"
         /\ JobFiles[k].content = Text(<<>>)
         /\ JobFiles[k].metaFile = ""
         /\ <<outputDir, "Button.tsx">> \notin Range(runs[n].saved)

\* C10: a second call of downloadGeneratedCode with the same outputs and
\* destination leaves the filesystem as the first call left it and returns
\* what the first call returned.
C10_Idempotent ==
  \A n \in DOMAIN runs :
    n > 1 =>
      /\ runs[n].after = runs[1].after
      /\ runs[n].saved = runs[1].saved
      /\ runs[n].outcome = runs[1].outcome

\* two calls were made, files were written, import prefixes rewritten and a
\* manifest generated
C10_Witness ==
  /\ Len(runs) >= 2
  /\ Returned(runs[2])
  /\ Len(runs[2].saved) > 0
  /\ runs[1].after # runs[1].before
  /\ runs[2].after.files[<<outputDir, "index.js">>] # Absent
  /\ \E p \in Range(runs[2].saved) :
        runs[2].after.files[p] = Normalized(cImport)

\* a written file as C11 reads it: a component extension and a base name
\* other than 'index'
NamedIndex(p) == BaseName(p[2]) = "index"
HasComponentExt(p) == ExtName(p[2]) \in {".jsx", ".tsx", ".js"}
ClaimedExported(p) == HasComponentExt(p) /\ ~NamedIndex(p)
ClaimedManifest(saved) ==
  Text([k \in 1..Len(SelectSeq(saved, ClaimedExported)) |->
          ExportLine(SelectSeq(saved, ClaimedExported)[k])])

\* C11, as claimed: when downloadGeneratedCode returns written files and the
\* manifest write does not fail, index.js at the destination root holds the
\* manifest exactly when some written file has a component extension and is
\* not named 'index'; the manifest then has one export line per such file,
\* in written order, and none for a file named 'index'; otherwise index.js
\* is left as the download wrote it or as it was before the call.
C11_ManifestExcludesIndex ==
  \A n \in DOMAIN runs :
    (Returned(runs[n]) /\ Len(runs[n].saved) > 0 /\ ~faults.indexFail) =>
      LET ip == <<outputDir, "index.js">>
      IN IF SelectSeq(runs[n].saved, ClaimedExported) # <<>>
         THEN runs[n].after.files[ip] = ClaimedManifest(runs[n].saved)
         ELSE runs[n].after.files[ip] =
                IF ip \in Range(runs[n].saved) THEN LastContent(ip)
                ELSE runs[n].before.files[ip]

\* C19, as claimed: when fixImportPaths fails on one written file, every
\* other written .ts/.tsx file is still processed: it holds the content
\* written to it with the import prefixes rewritten.
C19_FailureSkipsOnlyThatFile ==
  \A n \in DOMAIN runs :
    (Returned(runs[n]) /\ faults.fixFailAt \in 1..Len(runs[n].saved)) =>
      \A k \in 1..Len(runs[n].saved) :
        LET p == runs[n].saved[k]
        IN (/\ k # faults.fixFailAt
            /\ p # runs[n].saved[faults.fixFailAt]
            /\ ExtName(p[2]) \in {".ts", ".tsx"}) =>
             runs[n].after.files[p] = Normalized(LastContent(p))

\* C20: when no write of an output file fails, a call of
\* downloadGeneratedCode returns, and returns the path of every well-formed
\* output in order, whether or not the manifest write, fixImportPaths or the
\* creation of the middleware file failed.
C20_EnrichmentFailureIsNotFatal ==
  \A n \in DOMAIN runs :
    faults.writeFailAt = 0 =>
      /\ runs[n].outcome = "return"
      /\ runs[n].saved = [k \in 1..Len(ValidOutputs) |-> OutPath(ValidOutputs[k])]

\* a call that returned two paths although the write of the manifest it owed
\* failed, and one that returned although fixImportPaths failed on its file
C20_Witness ==
  \E n \in DOMAIN runs :
    /\ Len(runs[n].saved) = 2
    /\ runs[n].outcome = "return"
    /\ \/ /\ faults.indexFail
          /\ \E p \in Range(runs[n].saved) : ExtName(p[2]) = ".tsx"
          /\ runs[n].after.files[<<outputDir, "index.js">>] = Absent
       \/ /\ faults.fixFailAt = 1
          /\ ExtName(runs[n].saved[1][2]) = ".ts"
          /\ runs[n].after.files[<<outputDir, "lib/api/client.ts">>] = Absent

(***************************************************************************)
(* Properties of the wait loop and of the retry sequences (under Spec)     *)
(***************************************************************************)
PollStep == attempts' = attempts + 1
StageStep == getChatCalls' = getChatCalls + 1 /\ lastStage' # lastStage

\* C1, as claimed: the first poll that observes 'completed' ends the wait,
\* also when the output set is empty.
C1_CompletedEndsWait ==
  lastPoll.status = "completed" => waitResult # "none"

\* C1, amended: a poll that observes 'completed' and whose download returns
\* a non-empty file list ends the wait with those files, and no status poll
\* or other getChat call follows it; when the download returns an empty
\* list or throws, the wait does not end: it sleeps and stays in the loop.
C1_CompletedWithFilesEndsWait ==
  /\ [][(PollStep /\ lastPoll'.status = "completed") =>
          IF lastPoll'.dl = "files"
          THEN /\ waitResult' = "files"
               /\ pc' = "done"
               /\ Len(savedFiles') > 0
               /\ chatResult'.downloadedFiles = savedFiles'
          ELSE /\ waitResult' = "none"
               /\ pc' = "poll"
               /\ now' > now]_vars
  /\ [][waitResult = "files" =>
          (attempts' = attempts /\ getChatCalls' = getChatCalls)]_vars

C1_Witness ==
  /\ lastPoll = [status |-> "completed", dl |-> "files"]
  /\ attempts >= 2
  /\ waitResult = "files"

\* C2: a poll that observes 'failed' is terminal: one download attempt is
\* made and the wait ends with no further poll, whatever the attempt yields.
C2_FailedIsTerminal ==
  lastPoll.status = "failed" => waitResult # "none"

\* C3: a poll whose getChat call raises never ends the wait: the loop is
\* still running after it, a further poll is possible as long as the
\* deadline has not elapsed, and the loop is left without a result only when
\* the deadline has elapsed.
C3_RaisingPollNeverEndsWait ==
  /\ [][(PollStep /\ lastPoll'.status = "raised") =>
          (pc' = "poll" /\ waitResult' = "none")]_vars
  /\ [](pc = "poll" /\ now < MaxWaitTime => ENABLED PollRaises)
  /\ [][(pc = "poll" /\ pc' # "poll" /\ waitResult' \in {"none", "raised"}) =>
          (now >= MaxWaitTime /\ pc' = "final" /\ waitResult' = "none")]_vars

C3_Witness ==
  /\ lastPoll.status = "raised"
  /\ attempts >= 2
  /\ pc = "final"
  /\ now >= MaxWaitTime
  /\ waitResult = "none"

\* C4: in both retry sequences the first stage whose download returns a
\* non-empty file list is the final result: createAndDownload is done with
\* exactly these files, no later stage runs and no getChat call follows.
C4_FirstNonEmptyStageIsFinal ==
  /\ [](lastStage.result = "files" =>
          /\ pc = "done"
          /\ chatResult.hasDownloadedFiles
          /\ chatResult.downloadedFiles = lastStage.files
          /\ lastStage.kind = "final" =>
               /\ stage = lastStage.idx
               /\ retry = 0
               /\ waitResult = "files"
               /\ chatResult.autoDownloadStatus = "success"
          /\ lastStage.kind = "retry" =>
               /\ retry = lastStage.idx
               /\ chatResult.autoDownloadStatus = "retry_success")
  /\ [][lastStage.result = "files" =>
          (getChatCalls' = getChatCalls /\ lastStage' = lastStage)]_vars

C4_Witness ==
  /\ lastStage.kind = "final"
  /\ lastStage.idx = 2
  /\ lastStage.result = "files"
  /\ pc = "done"

\* C5: if every stage yields zero files the sequence ends without an error:
\* waitAndDownloadEnforced returns [] after its 3 final strategies, and
\* createAndDownload ends with status 'failed_will_retry' after its 5
\* aggressive retries.
C5_AllStagesEmptyIsNotAnError ==
  /\ (stage >= 1 /\ pc # "final" /\ waitResult # "files") =>
        (stage = NumStrategies /\ waitResult = "empty")
  /\ (retry >= 1 /\ pc = "done" /\ lastStage.kind = "retry"
        /\ lastStage.result # "files") =>
        /\ retry = MaxRetries + 1
        /\ chatResult.autoDownloadStatus = "failed_will_retry"
        /\ ~chatResult.hasDownloadedFiles
        /\ ~chatResult.hasDownloadError

C5_Witness ==
  /\ pc = "done"
  /\ stage = NumStrategies
  /\ waitResult = "empty"
  /\ retry = MaxRetries + 1
  /\ chatResult.autoDownloadStatus = "failed_will_retry"

\* C6: a stage whose download raises does not abort its sequence: the error
\* does not reach the caller, and unless it was the last stage the next
\* stage is up.
C6_RaisingStageDoesNotAbort ==
  [][(StageStep /\ lastStage'.result = "throw") =>
       /\ waitResult' # "raised"
       /\ chatResult'.autoDownloadStatus # "error"
       /\ (lastStage'.kind = "final" /\ lastStage'.idx < NumStrategies) =>
            (pc' = "final" /\ stage' = stage + 1 /\ stage' < NumStrategies)
       /\ (lastStage'.kind = "retry" /\ lastStage'.idx < MaxRetries) =>
            (pc' = "retry" /\ retry' = retry + 1)]_vars

C6_Witness ==
  /\ lastStage.kind = "retry"
  /\ lastStage.idx = 2
  /\ lastStage.result = "throw"
  /\ pc = "retry"
  /\ retry = 3

\* C12, as claimed: when the created chat is already 'completed' and its
\* outputs are materialised at once, no getChat call was made.
C12_NoGetChatWhenCreatedCompleted ==
  (createdCompleted /\ chatResult.autoDownloadStatus = "success") =>
    getChatCalls = 0

\* C12, amended: when the created chat is already 'completed',
\* createAndDownload never enters the wait loop (no status poll, no final
\* strategy), and when the outputs are materialised at once exactly one
\* getChat call was made, the one downloadGeneratedCode makes to fetch the
\* files.
C12_NoPollWhenCreatedCompleted ==
  createdCompleted =>
    /\ attempts = 0
    /\ stage = 0
    /\ lastPoll.status = "none"
    /\ waitResult = "none"
    /\ pc = "immediate" => getChatCalls = 0
    /\ chatResult.autoDownloadStatus = "success" =>
         getChatCalls = 1 /\ pc = "done"

C12_Witness ==
  /\ createdCompleted
  /\ pc = "done"
  /\ chatResult.autoDownloadStatus = "success"
  /\ Len(chatResult.downloadedFiles) = 2
  /\ getChatCalls = 1

\* C14: whenever createAndDownload returns, autoDownloadStatus is one of
\* success, retry_success, failed_will_retry and error, and downloadedFiles
\* is present and non-empty exactly when it is success or retry_success;
\* a non-empty list a download returned is the list handed to the caller.
C14_StatusAndFilesAgree ==
  pc = "done" =>
    /\ chatResult.autoDownloadStatus \in
         {"success", "retry_success", "failed_will_retry", "error"}
    /\ (chatResult.hasDownloadedFiles /\ Len(chatResult.downloadedFiles) > 0)
         <=> chatResult.autoDownloadStatus \in {"success", "retry_success"}
    /\ Len(savedFiles) > 0 => chatResult.downloadedFiles = savedFiles

C14_Witness ==
  /\ pc = "done"
  /\ chatResult.autoDownloadStatus = "retry_success"
  /\ chatResult.hasDownloadedFiles
  /\ Len(chatResult.downloadedFiles) = 2
  /\ retry > 1

\* C15, as claimed: once a remote call of the run has failed with a 401 the
\* run is over: createAndDownload has rejected or has returned with the
\* error status, and no further getChat call is made.
C15_UnauthorizedIsTerminal ==
  unauthorized =>
    /\ pc \in {"rejected", "done"}
    /\ pc = "done" => chatResult.autoDownloadStatus = "error"

\* C18: in a run of createAndDownload, ensureBackendIntegration has run at
\* most once, and when it has run the run is over with the files of the
\* download that ran it, at least one.
C18_IntegrationOnceAfterFiles ==
  /\ integrations <= 1
  /\ integrations = 1 =>
       /\ Len(savedFiles) > 0
       /\ pc = "done"
       /\ chatResult.autoDownloadStatus \in {"success", "retry_success"}
  /\ (pc = "done" /\ Len(savedFiles) > 0) => integrations = 1

\* a run whose first downloads wrote nothing and whose second aggressive
\* retry wrote a file
C18_Witness ==
  /\ integrations = 1
  /\ pc = "done"
  /\ getChatCalls > 3
  /\ lastStage.kind = "retry"
  /\ lastStage.idx = 2
  /\ Len(savedFiles) > 0

\* C23: in waitAndDownloadEnforced, a poll whose getChat returned a status
\* different from lastStatus logs one 'Status update' and makes that status
\* the new lastStatus; a poll that returned the same status, a poll that
\* raised, and every step that is not a poll log none and leave lastStatus
\* as it was.
C23_StatusReportedOncePerChange ==
  [][IF /\ attempts' = attempts + 1
        /\ lastPoll'.status \in {"pending", "in_progress", "completed", "failed"}
        /\ lastPoll'.status # lastStatus
     THEN /\ statusReports' = statusReports + 1
          /\ lastStatus' = lastPoll'.status
     ELSE /\ statusReports' = statusReports
          /\ lastStatus' = lastStatus]_vars

\* three polls, pending, in_progress and in_progress again: two reports
C23_Witness ==
  /\ attempts = 3
  /\ statusReports = 2
  /\ lastStatus = "in_progress"
  /\ lastPoll.status = "in_progress"
  /\ now = 6

\* C24, as claimed: right after a poll of waitAndDownloadEnforced that
\* observed 'failed', the wait has returned an empty list when the download
\* returned an empty list, and has raised to its caller when the download
\* failed with an error.
C24_FailedJobRaisesOnDownloadError ==
  [][(attempts' = attempts + 1 /\ lastPoll'.status = "failed") =>
       /\ lastPoll'.dl = "empty" => waitResult' = "empty"
       /\ lastPoll'.dl = "throw" => waitResult' = "raised"]_vars

\* C29: a run of downloadGeneratedCode on a chat that has files neither in
\* latestVersion.files nor in chat.files returns the empty list and leaves
\* the filesystem as it was: no directory created, no file (manifest,
\* backend files) written.
C29_NoFilesNoEffect ==
  \A i \in 1..Len(runs) :
    (job.lvFiles = <<>> /\ job.rootFiles = <<>>) =>
      /\ runs[i].outcome = "return"
      /\ runs[i].saved = <<>>
      /\ runs[i].after = runs[i].before
      /\ runs[i].after.dirs = runs[1].before.dirs

\* a run on a chat without files, on a disk where the output directory does
\* not exist
C29_Witness ==
  /\ Len(runs) >= 1
  /\ job.lvFiles = <<>> /\ job.rootFiles = <<>>
  /\ ~(RootDirs(outputDir) \subseteq runs[1].before.dirs)
  /\ runs[1].outcome = "return"

\* C27: waitAndDownloadEnforced never raises to createAndDownload; a run
\* ends with 'error' only when the chat was created completed and the
\* immediate download raised, the wait never entered; a run that entered
\* the wait ends with 'success', 'retry_success' or 'failed_will_retry',
\* the wait having returned a list.
C27_WaitNeverRaises ==
  /\ waitResult # "raised"
  /\ (pc = "done" /\ chatResult.autoDownloadStatus = "error") =>
       /\ createdCompleted
       /\ attempts = 0 /\ stage = 0 /\ retry = 0
       /\ waitResult = "none"
       /\ getChatCalls = 1
  /\ (pc = "done" /\ ~createdCompleted) =>
       /\ chatResult.autoDownloadStatus \in
            {"success", "retry_success", "failed_will_retry"}
       /\ waitResult \in {"files", "empty"}

\* a run whose wait met a failed job whose download threw, a final strategy
\* that threw and an unauthorized call, and still returned a list
C27_Witness ==
  /\ pc = "done"
  /\ ~createdCompleted
  /\ lastPoll = [status |-> "failed", dl |-> "throw"]
  /\ lastStage.kind = "retry"
  /\ stage = 3
  /\ unauthorized
  /\ waitResult = "empty"
  /\ chatResult.autoDownloadStatus = "failed_will_retry"

(***************************************************************************)
(* Progress of createAndDownload (under SpecFair)                          *)
(***************************************************************************)
\* the job has become 'completed' and shows at least one well-formed output
\* while the wait has not left its loop, in a run of a chat that was not
\* created completed, in which remote calls and file writes do not fail
\* from then on.  Every sleep of the loop starts before the deadline, so the
\* job may have become completed before the deadline also when the clock
\* stands at or past it as the loop condition is tested next.
CompletedInTime ==
  /\ reliable
  /\ faults = NoFaults
  /\ ~createdCompleted
  /\ pc = "poll"
  /\ remoteStatus = "completed"
  /\ remoteReady
  /\ ValidOutputs # <<>>

ReturnedSuccess ==
  /\ pc = "done"
  /\ chatResult.autoDownloadStatus = "success"
  /\ chatResult.downloadedFiles =
       [k \in 1..Len(ValidOutputs) |-> OutPath(ValidOutputs[k])]
  /\ \A k \in 1..Len(ValidOutputs) :
       disk.files[OutPath(ValidOutputs[k])].kind = "text"
  /\ retry = 0

\* C26, as claimed: such a run eventually returns with 'success' and the
\* files written, without entering the final strategies or the aggressive
\* retries.
C26_CompletedInTimeSucceedsInLoop ==
  CompletedInTime ~> (ReturnedSuccess /\ stage = 0)

\* C26, amended: such a run eventually returns with 'success' and the files
\* written, without the aggressive retries and after at most the first
\* final strategy; it returns from the poll loop, without any final
\* strategy, when the loop condition is tested before the deadline after
\* the job became completed.
C26_CompletedInTimeSucceeds ==
  /\ CompletedInTime ~> (ReturnedSuccess /\ stage <= 1)
  /\ (CompletedInTime /\ now < deadline) ~> (ReturnedSuccess /\ stage = 0)

\* a reliable run in which the job became completed during the last sleep
\* of the loop and the first final strategy returned the files
C26_Witness ==
  /\ reliable
  /\ faults = NoFaults
  /\ ~createdCompleted
  /\ ValidOutputs # <<>>
  /\ attempts > 0
  /\ lastPoll.status \in {"pending", "in_progress"}
  /\ pc = "done"
  /\ chatResult.autoDownloadStatus = "success"
  /\ stage = 1
  /\ waitResult = "files"

\* C28: every run of createAndDownload ends (it returns, or rejects when
\* createChat failed); an iteration of the poll loop that stays in the loop
\* advances the clock by at least 2 s, no iteration starts once the deadline
\* has elapsed, and each download attempted after the loop is one of at
\* most 3 final strategies (stage counts them) or of at most 5 aggressive
\* retries (retry is the number of the next one, 6 after the last).
C28_Terminates ==
  /\ <>(pc \in {"done", "rejected"})
  /\ [][(attempts' = attempts + 1 /\ pc' = "poll") => now' >= now + 2]_vars
  /\ [][attempts' = attempts + 1 => now < deadline]_vars
  /\ [](stage <= 3 /\ retry <= 6)
  /\ [][(pc \in {"final", "retry"} /\ getChatCalls' # getChatCalls) =>
          /\ getChatCalls' = getChatCalls + 1
          /\ \/ pc = "final" /\ stage' = stage + 1
             \/ pc = "retry" /\ retry <= 5 /\ (retry' = retry + 1 \/ pc' = "done")]_vars

\* a run that used the whole loop, the three final strategies and the five
\* aggressive retries
C28_Witness ==
  /\ pc = "done"
  /\ chatResult.autoDownloadStatus = "failed_will_retry"
  /\ now >= deadline
  /\ attempts >= 2
  /\ stage = 3
  /\ retry = 6

(***************************************************************************)
(* Properties of the wait called with any deadline (under SpecWait)        *)
(***************************************************************************)
\* C13: when the job is still 'pending' as the loop of the wait is left and
\* no poll raised (the polls slept 2 s each, so the clock stands at twice
\* their number), the loop is left at a time T with
\* deadline <= T <= deadline + 2 s; checked for both waits and for every
\* deadline from 1 s up.
C13_QuietWaitEndsAtDeadline ==
  (/\ pc = "final"
   /\ stage = 0
   /\ remoteStatus = "pending"
   /\ now = 2 * attempts) =>
     /\ deadline <= now
     /\ now <= deadline + 2

\* both waits left at 4 s with an odd deadline of 3 s after two quiet polls
C13_Witness ==
  /\ pc = "final"
  /\ stage = 0
  /\ remoteStatus = "pending"
  /\ lastPoll.status = "pending"
  /\ attempts = 2
  /\ now = 4
  /\ deadline = 3
  /\ entry = "waitAndDownload"

\* C22: when the job is not in a terminal state as the loop of the wait is
\* left and no poll raised (the clock stands at twice the number of polls),
\* the wait has made exactly ceil(deadline / 2) polls; checked for both
\* waits and every deadline from 1 s up.
C22_QuietWaitPollCount ==
  (/\ pc = "final"
   /\ stage = 0
   /\ remoteStatus \in {"pending", "in_progress"}
   /\ now = 2 * attempts) =>
     attempts = (deadline + 1) \div 2

\* a 4-second deadline: the enforced wait left after exactly two polls
C22_Witness ==
  /\ entry = "waitAndDownloadEnforced"
  /\ deadline = 4
  /\ pc = "final"
  /\ stage = 0
  /\ remoteStatus = "in_progress"
  /\ lastPoll.status = "in_progress"
  /\ now = 4
  /\ attempts = 2

\* a poll of waitAndDownload that met an error: the status 'failed', a
\* getChat that threw, or a download that threw after 'completed'
SdkPollMetError ==
  /\ entry = "waitAndDownload"
  /\ attempts' = attempts + 1
  /\ \/ lastPoll'.status \in {"failed", "raised"}
     \/ lastPoll' = [status |-> "completed", dl |-> "throw"]

\* C30: waitAndDownload never raises to its caller; a poll that observes
\* 'failed', a poll that throws and a download that throws after 'completed'
\* happen before the deadline and each leave the wait in its loop 5 s later;
\* a poll that does not observe 'completed' makes no download (one getChat
\* call, the filesystem as it was); after the loop exactly one download is
\* attempted, and when it throws the wait returns the empty list.
C30_SdkWaitNeverRaises ==
  /\ [](entry = "waitAndDownload" =>
          /\ pc # "raised"
          /\ waitResult # "raised"
          /\ stage <= 1
          /\ (pc = "returned" /\ lastStage.result = "throw") =>
               (savedFiles = <<>> /\ waitResult = "empty"))
  /\ [][SdkPollMetError =>
          /\ now < deadline
          /\ now' = now + 5
          /\ pc' = "poll"
          /\ waitResult' = "none"]_vars
  /\ [][(entry = "waitAndDownload" /\ attempts' = attempts + 1
           /\ lastPoll'.status # "completed") =>
          /\ getChatCalls' = getChatCalls + 1
          /\ lastPoll'.dl = "none"
          /\ disk' = disk]_vars
  /\ [][(entry = "waitAndDownload" /\ stage' # stage) =>
          /\ now >= deadline
          /\ stage = 0 /\ stage' = 1
          /\ getChatCalls' = getChatCalls + 1
          /\ pc' = "returned"]_vars

\* a call of waitAndDownload that met a failed status, and whose final
\* download threw an unauthorized error: it returned the empty list
C30_Witness ==
  /\ entry = "waitAndDownload"
  /\ pc = "returned"
  /\ lastPoll.status = "failed"
  /\ attempts >= 2
  /\ stage = 1
  /\ lastStage.result = "throw"
  /\ unauthorized
  /\ waitResult = "empty"

(***************************************************************************)
(* Properties of the backoff of the enforced wait (under SpecLongWait)     *)
(***************************************************************************)
\* C25, as claimed: a poll that raises right after a poll that did not (the
\* first of a run of consecutive failed polls, so not the 5th, 10th, ...)
\* is followed by a backoff of 3 seconds.
C25_FirstFailureBacksOffThree ==
  [][(/\ attempts' = attempts + 1
      /\ lastPoll'.status = "raised"
      /\ lastPoll.status \in {"pending", "in_progress", "completed"}
      /\ lastPoll.dl # "throw") =>
        now' = now + 3]_vars

(***************************************************************************)
(* Properties of the command-line scripts (under SpecCli)                  *)
(***************************************************************************)
\* C16, as claimed: in every script, a remote call is issued by the creation
\* path only for a prompt that is present, a valid model id and a valid
\* privacy value.
C16_InvalidInputNeverReachesRemote ==
  (invocation.command = "none" /\ remoteCalls > 0) =>
    /\ invocation.prompt
    /\ invocation.modelValid
    /\ invocation.privacyValid

\* C17, as claimed: a help invocation and an invocation without a prompt
\* both end with a non-zero exit status and without a remote call.
C17_HelpAndNoPromptExitNonZero ==
  (/\ invocation.command = "none"
   /\ invocation.help \/ ~invocation.prompt
   /\ cliPc = "exited") =>
     /\ exitCode # 0
     /\ remoteCalls = 0

\* C17, amended: in every script, an invocation with the help flag or
\* without a prompt (and not the download or list command of the sdk
\* script) never issues a remote call and ends in the main itself; with
\* V0_API_KEY set, help ends with exit status 0 and a missing prompt
\* without the help flag with exit status 1; without V0_API_KEY both end
\* with exit status 1.
C17_HelpExitsZeroNoPromptExitsOne ==
  (/\ invocation.command = "none"
   /\ invocation.help \/ ~invocation.prompt) =>
     /\ remoteCalls = 0
     /\ cliPc \in {"start", "exited"}
     /\ cliPc = "exited" =>
          exitCode = IF ~invocation.hasKey THEN 1
                     ELSE IF invocation.help THEN 0 ELSE 1

C17_Witness ==
  /\ script = "smart"
  /\ invocation.hasKey
  /\ invocation.help
  /\ invocation.prompt
  /\ cliPc = "exited"
  /\ exitCode = 0
  /\ remoteCalls = 0

(***************************************************************************)
(* Properties of the replacements of fixImportPaths (under SpecFix)        *)
(***************************************************************************)
RECURSIVE LiteralReplaceAll(_, _, _)
LiteralReplaceAll(s, lit, to) ==
  IF Len(s) < Len(lit) THEN s
  ELSE IF SubSeq(s, 1, Len(lit)) = lit
       THEN to \o LiteralReplaceAll(SubSeq(s, Len(lit) + 1, Len(s)), lit, to)
       ELSE <<Head(s)>> \o LiteralReplaceAll(Tail(s), lit, to)

RECURSIVE ExactFixes(_, _)
ExactFixes(s, k) ==
  IF k > 4 THEN s
  ELSE ExactFixes(LiteralReplaceAll(s, importFixes[k].wrongPath,
                                    importFixes[k].correctPath), k + 1)

\* C21, as claimed: the content fixImportPaths produces is the content with
\* every exact occurrence of the four prefixes replaced by its canonical
\* prefix, and nothing else changed.
C21_OnlyExactOccurrencesChange ==
  fixOutput # Absent => fixOutput.toks = ExactFixes(fixInput, 1)

====
